---------------------------- MODULE Spec2Model ----------------------------
(***************************************************************************)
(* Model of the pymupdf4llm-c Rust boundary layer (src/lib.rs):            *)
(*   - the bounding-box normalizer deserialize_bbox and the serde-derived  *)
(*     deserialization of Block;                                           *)
(*   - artifact discovery gather_json_files;                               *)
(*   - the public calls to_json, to_json_collect and extract_page_json,    *)
(*     with the native entry points pdf_to_json, page_to_json_string and   *)
(*     free as the environment.                                            *)
(***************************************************************************)
EXTENDS Integers, Sequences, FiniteSets, TLC

VARIABLES
    input,       \* argument of the pure function under check
    output,      \* its result ("pending" until it has been applied)
    fs,          \* filesystem: kind of every path ("absent", "file", "dir")
    dir,         \* the output directory: [listing, data] as the engine wrote it
    pc,          \* control point of the active call
    call,        \* arguments of the active call
    native,      \* invocation counters of the native entry points
    ptr,         \* buffer returned by page_to_json_string
    native_arg,  \* page_number as page_to_json_string received it (32 bits)
    files,       \* Vec<PathBuf> returned by to_json
    pages,       \* Vec<Vec<Block>> accumulated by to_json_collect
    result       \* value returned by the call

vars == <<input, output, fs, dir, pc, call, native, ptr, native_arg, files, pages, result>>
pureVars == <<input, output>>
gatewayVars == <<fs, dir, pc, call, native, ptr, native_arg, files, pages, result>>

(***************************************************************************)
(* Bounds of the model.                                                    *)
(***************************************************************************)
MaxCoord == 1
MaxArrayLen == 5

(***************************************************************************)
(* Result<T, E> and Option<T>.                                             *)
(***************************************************************************)
Ok(v) == [ok |-> TRUE, val |-> v]
Err(e) == [ok |-> FALSE, err |-> e]
None == <<>>
Some(v) == <<v>>

(***************************************************************************)
(* serde_json::Value, as far as the normalizer looks into it: a value is   *)
(* a record with its kind k; numbers carry n, arrays elems, objects a      *)
(* function from their keys.                                               *)
(***************************************************************************)
JNum(n) == [k |-> "num", n |-> n]
JStr == [k |-> "str", n |-> 0]
JNull == [k |-> "null", n |-> 0]
JArr(elems) == [k |-> "arr", elems |-> elems]
JObj(fields) == [k |-> "obj", fields |-> fields]

\* Value::as_f64: Some for a number, None for every other kind.
AsF64(v) == IF v.k = "num" THEN Some(v.n) ELSE None

\* obj.get(key).and_then(|v| v.as_f64())
GetF64(obj, key) == IF key \in DOMAIN obj THEN AsF64(obj[key]) ELSE None

\* A plausible slip: the two inner coordinates land in each other's place.
BBoxFromArraySwapped(arr) ==
    IF AsF64(arr[1]) = None THEN Err("bbox[0] not a number")
    ELSE IF AsF64(arr[2]) = None THEN Err("bbox[1] not a number")
    ELSE IF AsF64(arr[3]) = None THEN Err("bbox[2] not a number")
    ELSE IF AsF64(arr[4]) = None THEN Err("bbox[3] not a number")
    ELSE Ok([x0 |-> AsF64(arr[1])[1], y0 |-> AsF64(arr[3])[1],
             x1 |-> AsF64(arr[2])[1], y1 |-> AsF64(arr[4])[1]])

\* The Value::Array arm: each coordinate in turn, the first failure returns.
BBoxFromArray(arr) ==
    IF AsF64(arr[1]) = None THEN Err("bbox[0] not a number")
    ELSE IF AsF64(arr[2]) = None THEN Err("bbox[1] not a number")
    ELSE IF AsF64(arr[3]) = None THEN Err("bbox[2] not a number")
    ELSE IF AsF64(arr[4]) = None THEN Err("bbox[3] not a number")
    ELSE Ok([x0 |-> AsF64(arr[1])[1], y0 |-> AsF64(arr[2])[1],
             x1 |-> AsF64(arr[3])[1], y1 |-> AsF64(arr[4])[1]])

\* A plausible slip: unwrap_or(0.0) in place of ok_or_else(..)?.
BBoxFromObjectDefaulting(obj) ==
    LET get(key) == IF GetF64(obj, key) = None THEN 0 ELSE GetF64(obj, key)[1]
    IN Ok([x0 |-> get("x0"), y0 |-> get("y0"), x1 |-> get("x1"), y1 |-> get("y1")])

\* The Value::Object arm.
BBoxFromObject(obj) ==
    IF GetF64(obj, "x0") = None THEN Err("missing or invalid x0")
    ELSE IF GetF64(obj, "y0") = None THEN Err("missing or invalid y0")
    ELSE IF GetF64(obj, "x1") = None THEN Err("missing or invalid x1")
    ELSE IF GetF64(obj, "y1") = None THEN Err("missing or invalid y1")
    ELSE Ok([x0 |-> GetF64(obj, "x0")[1], y0 |-> GetF64(obj, "y0")[1],
             x1 |-> GetF64(obj, "x1")[1], y1 |-> GetF64(obj, "y1")[1]])

ShapeError == "bbox must be array [x0,y0,x1,y1] or object {x0,y0,x1,y1}"

deserialize_bbox(value) ==
    IF value.k = "arr" /\ Len(value.elems) = 4 THEN BBoxFromArray(value.elems)
    ELSE IF value.k = "obj" THEN BBoxFromObject(value.fields)
    ELSE Err(ShapeError)

(***************************************************************************)
(* Inputs of the normalizer: arrays of up to MaxArrayLen elements, objects *)
(* over any subset of the keys, and bare scalars.                          *)
(***************************************************************************)
Coords == 0..MaxCoord
Elems == {JNum(n) : n \in Coords} \cup {JStr, JNull}
BBoxKeys == {"x0", "y0", "x1", "y1"}
BBoxArrays == UNION {[1..n -> Elems] : n \in 0..MaxArrayLen}
BBoxObjects == UNION {[K -> Elems] : K \in SUBSET BBoxKeys}
BBoxInputs == {JArr(a) : a \in BBoxArrays} \cup {JObj(o) : o \in BBoxObjects} \cup Elems

Pending == [pending |-> TRUE]

GatewayUnused ==
    /\ fs = <<>>
    /\ dir = <<>>
    /\ pc = "unused"
    /\ call = <<>>
    /\ native = <<>>
    /\ ptr = <<>>
    /\ native_arg = <<>>
    /\ files = <<>>
    /\ pages = <<>>
    /\ result = <<>>

InitBBox ==
    /\ input \in BBoxInputs
    /\ output = Pending
    /\ GatewayUnused

NormalizeBBox ==
    /\ output = Pending
    /\ output' = deserialize_bbox(input)
    /\ UNCHANGED <<input, gatewayVars>>

SpecBBox == InitBBox /\ [][NormalizeBBox]_vars

(***************************************************************************)
(* Block: the serde-derived Deserialize of the struct.  A payload is a     *)
(* function from the keys it holds to their values; its keys are visited   *)
(* in the order of FieldOrder (payloads list their keys as the struct      *)
(* declares them).                                                         *)
(***************************************************************************)
FieldOrder ==
    <<"type", "text", "bbox", "font_size", "font_weight", "page_number", "length",
      "lines", "confidence", "row_count", "col_count", "cell_count", "rows">>

\* The declared type of each field of Block.
FieldType(f) ==
    CASE f \in {"type", "text"} -> "String"
      [] f = "bbox" -> "BBox"
      [] f = "font_size" -> "f64"
      [] f = "font_weight" -> "Option<String>"
      [] f = "page_number" -> "i32"
      [] f = "length" -> "usize"
      [] f \in {"lines", "row_count", "col_count", "cell_count"} -> "Option<u32>"
      [] f = "confidence" -> "Option<f64>"
      [] f = "rows" -> "Option<Vec<TableRow>>"

\* The fields that carry #[serde(default)].
DefaultedFields ==
    {"font_size", "font_weight", "lines", "confidence", "row_count", "col_count",
     "cell_count", "rows"}

IsOption(ty) ==
    ty \in {"Option<String>", "Option<u32>", "Option<f64>", "Option<Vec<TableRow>>"}

\* T of Option<T>.
InnerType(ty) ==
    CASE ty = "Option<String>" -> "String"
      [] ty = "Option<u32>" -> "u32"
      [] ty = "Option<f64>" -> "f64"
      [] ty = "Option<Vec<TableRow>>" -> "Vec<TableRow>"

\* Deserialize of a type that is not an Option: the JSON kind must match.
DeserializePlain(ty, v) ==
    CASE ty = "String" ->
            IF v.k = "str" THEN Ok("text") ELSE Err("invalid type, expected a string")
      [] ty = "f64" ->
            IF v.k = "num" THEN Ok(v.n) ELSE Err("invalid type, expected f64")
      [] ty = "i32" ->
            IF v.k = "num" THEN Ok(v.n) ELSE Err("invalid type, expected i32")
      [] ty \in {"u32", "usize"} ->
            IF v.k = "num" /\ v.n >= 0 THEN Ok(v.n) ELSE Err("invalid type, expected " \o ty)
      [] ty = "Vec<TableRow>" ->
            IF v.k = "arr" /\ v.elems = <<>> THEN Ok(<<>>)
            ELSE Err("invalid type, expected a sequence")
      [] ty = "BBox" -> deserialize_bbox(v)

\* Deserialize of a field's type: Option<T> takes null as None.
DeserializeValue(ty, v) ==
    IF IsOption(ty)
    THEN IF v.k = "null" THEN Ok(None)
         ELSE LET r == DeserializePlain(InnerType(ty), v)
              IN IF r.ok THEN Ok(Some(r.val)) ELSE r
    ELSE DeserializePlain(ty, v)

\* Default::default() of a defaulted field: 0.0 for f64, None for Option<T>.
DefaultValue(ty) == IF ty = "f64" THEN 0 ELSE None

\* The visitor of the derived Deserialize: each key of the payload is
\* deserialized into its field as it is met and the first failure returns;
\* after the last key a field that was not met takes its default or fails.
DeserializeBlock(obj) ==
    LET present == {i \in DOMAIN FieldOrder : FieldOrder[i] \in DOMAIN obj}
        parsed(i) == DeserializeValue(FieldType(FieldOrder[i]), obj[FieldOrder[i]])
        invalid == {i \in present : ~parsed(i).ok}
        missing == {i \in DOMAIN FieldOrder \ present : FieldOrder[i] \notin DefaultedFields}
        first(S) == CHOOSE i \in S : \A j \in S : i <= j
    IN  IF invalid # {}
        THEN Err([field |-> FieldOrder[first(invalid)], msg |-> parsed(first(invalid)).err])
        ELSE IF missing # {}
        THEN Err([field |-> FieldOrder[first(missing)], msg |-> "missing field"])
        ELSE Ok([f \in {FieldOrder[i] : i \in DOMAIN FieldOrder} |->
                    IF f \in DOMAIN obj
                    THEN DeserializeValue(FieldType(f), obj[f]).val
                    ELSE DefaultValue(FieldType(f))])

\* serde_json::from_str::<Vec<Block>>: the document must be an array, and the
\* first element that fails to deserialize fails the whole document.
DeserializeBlocks(doc) ==
    IF doc.k # "arr" THEN Err([field |-> "", msg |-> "invalid type, expected a sequence"])
    ELSE LET bad == {i \in DOMAIN doc.elems : ~DeserializeBlock(doc.elems[i]).ok}
         IN IF bad # {}
            THEN DeserializeBlock(doc.elems[CHOOSE i \in bad : \A j \in bad : i <= j])
            ELSE Ok([i \in DOMAIN doc.elems |-> DeserializeBlock(doc.elems[i]).val])

(***************************************************************************)
(* Payloads of one block: the required fields valid or (RequiredVariants)  *)
(* one of them left out, the bounding box in either shape, broken or left  *)
(* out, and up to MaxOptionalKeys of the defaulted keys, each null, well   *)
(* typed or ill typed.                                                     *)
(***************************************************************************)
MaxOptionalKeys == 3

ValidArrayBBox == JArr(<<JNum(0), JNum(0), JNum(1), JNum(1)>>)
ValidObjectBBox == JObj([x0 |-> JNum(0), y0 |-> JNum(0), x1 |-> JNum(1), y1 |-> JNum(1)])
ShortArrayBBox == JArr(<<JNum(0), JNum(0), JNum(1)>>)

ValidValue(f) ==
    CASE FieldType(f) \in {"String", "Option<String>"} -> JStr
      [] FieldType(f) = "Option<Vec<TableRow>>" -> JArr(<<>>)
      [] FieldType(f) = "BBox" -> ValidArrayBBox
      [] OTHER -> JNum(1)

IllTypedValue(f) ==
    IF FieldType(f) \in {"String", "Option<String>"} THEN JNum(1) ELSE JStr

PlainRequired == {"type", "text", "page_number", "length"}
RequiredVariants ==
    {[f \in PlainRequired |-> ValidValue(f)]}
        \cup {[f \in PlainRequired \ {g} |-> ValidValue(f)] : g \in PlainRequired}
BBoxVariants ==
    {[bbox |-> ValidArrayBBox], [bbox |-> ValidObjectBBox], [bbox |-> ShortArrayBBox],
     [f \in {} |-> JNull]}
OptionalVariants ==
    UNION {[K -> {"null", "valid", "illtyped"}] :
              K \in {S \in SUBSET DefaultedFields : Cardinality(S) <= MaxOptionalKeys}}

\* The payload with the keys of three partial payloads.
Payload(req, bb, opt) ==
    [f \in DOMAIN req \cup DOMAIN bb \cup DOMAIN opt |->
        IF f \in DOMAIN req THEN req[f]
        ELSE IF f \in DOMAIN bb THEN bb[f]
        ELSE CASE opt[f] = "null" -> JNull
               [] opt[f] = "valid" -> ValidValue(f)
               [] opt[f] = "illtyped" -> IllTypedValue(f)]

BlockInputs ==
    {Payload(req, bb, opt) : req \in RequiredVariants, bb \in BBoxVariants,
                             opt \in OptionalVariants}

InitBlock ==
    /\ input \in BlockInputs
    /\ output = Pending
    /\ GatewayUnused

DeserializeOneBlock ==
    /\ output = Pending
    /\ output' = DeserializeBlock(input)
    /\ UNCHANGED <<input, gatewayVars>>

SpecBlock == InitBlock /\ [][DeserializeOneBlock]_vars

(***************************************************************************)
(* gather_json_files.  A file name is a sequence of characters; the        *)
(* entries of one directory differ only in their file name, so a path is   *)
(* modelled by it.                                                         *)
(***************************************************************************)
\* The characters in use, in ascending byte order.
Chars ==
    <<".", "0", "1", "2", "_", "a", "b", "e", "g", "j", "k", "n", "o", "p", "s",
      "t", "x">>

\* The rank of a character in byte order.
Ord(c) == CHOOSE i \in DOMAIN Chars : Chars[i] = c

\* Ord of PathBuf on two entries of one directory: byte-wise lexicographic.
PathLess(a, b) ==
    \E i \in 1..(Len(a) + 1) :
        /\ i <= Len(b)
        /\ \A j \in 1..(i - 1) : a[j] = b[j]
        /\ (i = Len(a) + 1 \/ Ord(a[i]) < Ord(b[i]))

\* Path::extension: the part after the last dot of the file name; none when
\* there is no dot or the only dot is the first character.
Extension(name) ==
    LET dots == {i \in DOMAIN name : name[i] = "."}
        last == CHOOSE i \in dots : \A j \in dots : j <= i
    IN  IF name = <<".", ".">> \/ dots = {} THEN None
        ELSE IF last = 1 THEN None
        ELSE Some(SubSeq(name, last + 1, Len(name)))

\* str::starts_with
StartsWith(name, prefix) ==
    Len(name) >= Len(prefix) /\ SubSeq(name, 1, Len(prefix)) = prefix

\* The condition of the if in the loop.
IsPageArtifact(name) ==
    /\ Extension(name) = Some(<<"j", "s", "o", "n">>)
    /\ StartsWith(name, <<"p", "a", "g", "e", "_">>)

\* The for loop: the matching entries, pushed in the order of the listing.
RECURSIVE CollectEntries(_)
CollectEntries(listing) ==
    IF listing = <<>> THEN <<>>
    ELSE (IF IsPageArtifact(Head(listing)) THEN <<Head(listing)>> ELSE <<>>)
             \o CollectEntries(Tail(listing))

\* Insertion of one path into a sorted vector, after the entries not above it.
RECURSIVE InsertSorted(_, _)
InsertSorted(sorted, p) ==
    IF sorted = <<>> THEN <<p>>
    ELSE IF PathLess(p, Head(sorted)) THEN <<p>> \o sorted
    ELSE <<Head(sorted)>> \o InsertSorted(Tail(sorted), p)

RECURSIVE SortFrom(_, _)
SortFrom(sorted, rest) ==
    IF rest = <<>> THEN sorted
    ELSE SortFrom(InsertSorted(sorted, Head(rest)), Tail(rest))

\* A plausible slip: the sort left out.
SortPathsSkipped(entries) == entries

\* entries.sort(): a stable ascending sort.
SortPaths(entries) == SortFrom(<<>>, entries)

gather_json_files(listing) == Ok(SortPaths(CollectEntries(listing)))

(***************************************************************************)
(* Directory listings: up to MaxEntries distinct names, in any order.      *)
(***************************************************************************)
MaxEntries == 3

Page1 == <<"p", "a", "g", "e", "_", "1", ".", "j", "s", "o", "n">>
Page10 == <<"p", "a", "g", "e", "_", "1", "0", ".", "j", "s", "o", "n">>
Page2 == <<"p", "a", "g", "e", "_", "2", ".", "j", "s", "o", "n">>
NotesJson == <<"n", "o", "t", "e", "s", ".", "j", "s", "o", "n">>

EntryNames ==
    {Page1, Page10, Page2, NotesJson,
     <<"p", "a", "g", "e", "_", "1", ".", "t", "x", "t">>,
     <<"p", "a", "g", "e", "_", "j", "s", "o", "n">>,
     <<"p", "a", "g", "e", "_", "1", ".", "j", "s", "o", "n", ".", "b", "a", "k">>,
     <<"x", "p", "a", "g", "e", "_", "1", ".", "j", "s", "o", "n">>,
     <<"p", "a", "g", "e", "_", ".", "j", "s", "o", "n">>,
     <<".", "j", "s", "o", "n">>}

Range(s) == {s[i] : i \in DOMAIN s}
DistinctSeqs(S, n) ==
    UNION {{s \in [1..m -> S] : Cardinality(Range(s)) = m} : m \in 0..n}

Listings == DistinctSeqs(EntryNames, MaxEntries)

InitGather ==
    /\ input \in Listings
    /\ output = Pending
    /\ GatewayUnused

GatherJsonFiles ==
    /\ output = Pending
    /\ output' = gather_json_files(input)
    /\ UNCHANGED <<input, gatewayVars>>

SpecGather == InitGather /\ [][GatherJsonFiles]_vars

(***************************************************************************)
(* The gateway: paths and the filesystem.                                  *)
(***************************************************************************)
ReportPdf == [parent |-> "/docs", stem |-> "report", ext |-> "pdf", nul |-> FALSE]
MissingPdf == [parent |-> "/docs", stem |-> "missing", ext |-> "pdf", nul |-> FALSE]
ScansDir == [parent |-> "/docs", stem |-> "scans", ext |-> "", nul |-> FALSE]
NulPath == [parent |-> "/docs", stem |-> "re\\0port", ext |-> "pdf", nul |-> TRUE]
PagesDir == [parent |-> "/out", stem |-> "pages", ext |-> "", nul |-> FALSE]

\* default_output_dir: the sibling of the input named <stem>_json.
default_output_dir(pdf_path) ==
    [parent |-> pdf_path.parent, stem |-> pdf_path.stem \o "_json", ext |-> "",
     nul |-> pdf_path.nul]

\* resolve_output_dir: the directory given, or the default one.
resolve_output_dir(pdf_path, output_dir) ==
    IF output_dir = None THEN default_output_dir(pdf_path) ELSE output_dir[1]

PdfPaths == {ReportPdf, MissingPdf, ScansDir, NulPath}
OutputDirs == {None, Some(PagesDir), Some(ReportPdf), Some(NulPath)}
AllPaths == PdfPaths \cup {PagesDir} \cup {default_output_dir(p) : p \in PdfPaths}

\* The filesystems a call may start in: the inputs as named, and the output
\* directories either all absent or all there already.
InitialFilesystems ==
    {[p \in AllPaths |->
        CASE p = ReportPdf -> "file"
          [] p = ScansDir -> "dir"
          [] p \in {MissingPdf, NulPath, default_output_dir(NulPath)} -> "absent"
          [] OTHER -> there] : there \in {"absent", "dir"}}

\* A plausible slip: the existence check left out.
PathExistsAlways(f, path) == TRUE

\* Path::exists: true for anything the path names, whatever its kind; false
\* for a path the filesystem cannot name (an embedded NUL).
PathExists(f, path) == f[path] # "absent"

\* fs::create_dir_all: no error for a directory that is there already, an
\* error when the path names a file or cannot be named.
create_dir_all(f, path) ==
    IF path.nul \/ f[path] = "file" THEN Err([kind |-> "Io"])
    ELSE Ok([f EXCEPT ![path] = "dir"])

\* path_to_cstring: CString::new fails on an embedded NUL.
path_to_cstring(path) == IF path.nul THEN Err([kind |-> "Nul"]) ELSE Ok(path)

(***************************************************************************)
(* Page numbers.  usize is 64 bits wide and held as four 16-bit limbs, the *)
(* most significant first; i32 is the low two limbs.                       *)
(***************************************************************************)
Limb == 2 ^ 16
I32_MAX == <<0, 0, (2 ^ 15) - 1, Limb - 1>>

\* a > b on usize.
GtU(a, b) ==
    \E i \in 1..4 : a[i] > b[i] /\ \A j \in 1..(i - 1) : a[j] = b[j]

\* A plausible slip: >= in place of >.
ExceedsI32MaxInclusive(n) == GtU(n, I32_MAX) \/ n = I32_MAX

\* page_number > i32::MAX as usize
ExceedsI32Max(n) == GtU(n, I32_MAX)

\* page_number as i32: the low 32 bits.
AsI32(n) == <<n[3], n[4]>>

PageNumbers ==
    {<<0, 0, 0, 0>>, <<0, 0, 0, 1>>, <<0, 0, (2 ^ 15) - 1, Limb - 2>>, I32_MAX,
     <<0, 0, 2 ^ 15, 0>>, <<0, 0, 2 ^ 15, 1>>, <<0, 0, Limb - 1, Limb - 1>>,
     <<0, 1, 0, 0>>, <<0, 1, 0, 1>>, <<Limb - 1, Limb - 1, Limb - 1, Limb - 1>>}

(***************************************************************************)
(* The native engine, as the environment.                                  *)
(***************************************************************************)
MaxPages == 2

\* What page_to_json_string may return: NULL, or a buffer holding JSON, text
\* that is no JSON, or bytes that are no UTF-8.
NullPtr == [null |-> TRUE, utf8 |-> FALSE, text |-> ""]
Buffers ==
    {NullPtr,
     [null |-> FALSE, utf8 |-> TRUE, text |-> "[]"],
     [null |-> FALSE, utf8 |-> TRUE, text |-> "not json"],
     [null |-> FALSE, utf8 |-> FALSE, text |-> ""]}
NoPtr == [null |-> TRUE, utf8 |-> FALSE, text |-> "unset"]

\* A plausible slip: the null check left out.
IsNullNever(p) == FALSE

\* ptr.is_null()
IsNull(p) == p.null

\* The return codes of pdf_to_json.
ReturnCodes == {0, 7}

\* The files pdf_to_json may leave in the output directory.
PlainBlock == [f \in PlainRequired |-> ValidValue(f)]
BlockA == Payload(PlainBlock, [bbox |-> ValidArrayBBox], <<>>)
BlockB == Payload(PlainBlock, [bbox |-> ValidObjectBBox], [font_size |-> "valid"])
BlockShort == Payload(PlainBlock, [bbox |-> ShortArrayBBox], <<>>)
ArtifactData ==
    {[readable |-> FALSE, doc |-> JNull],
     [readable |-> TRUE, doc |-> JNull],
     [readable |-> TRUE, doc |-> JArr(<<BlockA>>)],
     [readable |-> TRUE, doc |-> JArr(<<BlockB, BlockA>>)],
     [readable |-> TRUE, doc |-> JArr(<<BlockA, BlockShort>>)]}
EngineNames == {Page1, Page10, Page2, NotesJson}
EngineOutputs ==
    UNION {{[listing |-> l, data |-> d] : d \in [Range(l) -> ArtifactData]} :
              l \in DistinctSeqs(EngineNames, MaxPages)}
EmptyDir == [listing |-> <<>>, data |-> <<>>]

(***************************************************************************)
(* The calls.                                                              *)
(***************************************************************************)
NoCall == [fn |-> "none", pdf_path |-> ReportPdf, output_dir |-> None,
           page_number |-> <<0, 0, 0, 0>>]
NoResult == [pending |-> TRUE]
ZeroCalls == [pdf_to_json |-> 0, page_to_json_string |-> 0, free |-> 0]

Init ==
    /\ input = <<>>
    /\ output = <<>>
    /\ fs \in InitialFilesystems
    /\ dir = EmptyDir
    /\ pc = "idle"
    /\ call = NoCall
    /\ native = ZeroCalls
    /\ ptr = NoPtr
    /\ native_arg = <<0, 0>>
    /\ files = <<>>
    /\ pages = <<>>
    /\ result = NoResult

\* The caller invokes to_json or to_json_collect.
CallDocument ==
    /\ pc = "idle"
    /\ \E fn \in {"to_json", "to_json_collect"}, p \in PdfPaths, o \in OutputDirs :
          call' = [fn |-> fn, pdf_path |-> p, output_dir |-> o,
                   page_number |-> <<0, 0, 0, 0>>]
    /\ pc' = "to_json"
    /\ UNCHANGED <<pureVars, fs, dir, native, ptr, native_arg, files, pages, result>>

\* The caller invokes extract_page_json.
CallPage ==
    /\ pc = "idle"
    /\ \E p \in PdfPaths, n \in PageNumbers :
          call' = [fn |-> "extract_page_json", pdf_path |-> p, output_dir |-> None,
                   page_number |-> n]
    /\ pc' = "extract_page_json"
    /\ UNCHANGED <<pureVars, fs, dir, native, ptr, native_arg, files, pages, result>>

\* to_json up to its call of convert_document.
ToJson ==
    /\ pc = "to_json"
    /\ LET target_dir == resolve_output_dir(call.pdf_path, call.output_dir)
           made == create_dir_all(fs, target_dir)
       IN  IF ~PathExists(fs, call.pdf_path)
           THEN /\ result' = Err([kind |-> "MissingInput", path |-> call.pdf_path])
                /\ pc' = "done"
                /\ fs' = fs
           ELSE IF ~made.ok
           THEN /\ result' = Err(made.err)
                /\ pc' = "done"
                /\ fs' = fs
           ELSE /\ fs' = made.val
                /\ pc' = "convert_document"
                /\ result' = result
    /\ UNCHANGED <<pureVars, dir, call, native, ptr, native_arg, files, pages>>

\* convert_document: the two strings, pdf_to_json, then gather_json_files;
\* to_json returns its result, to_json_collect goes on with the files.
ConvertDocument ==
    /\ pc = "convert_document"
    /\ LET target_dir == resolve_output_dir(call.pdf_path, call.output_dir)
           pdf_c == path_to_cstring(call.pdf_path)
           dir_c == path_to_cstring(target_dir)
       IN  IF ~pdf_c.ok \/ ~dir_c.ok
           THEN /\ result' = (IF ~pdf_c.ok THEN pdf_c ELSE dir_c)
                /\ pc' = "done"
                /\ UNCHANGED <<dir, native, files>>
           ELSE \E ret \in ReturnCodes, written \in EngineOutputs :
                  /\ native' = [native EXCEPT !.pdf_to_json = @ + 1]
                  /\ IF ret # 0
                     THEN /\ result' = Err([kind |-> "CError", code |-> ret])
                          /\ pc' = "done"
                          /\ UNCHANGED <<dir, files>>
                     ELSE /\ dir' = written
                          /\ files' = gather_json_files(written.listing).val
                          /\ IF call.fn = "to_json"
                             THEN /\ result' = gather_json_files(written.listing)
                                  /\ pc' = "done"
                             ELSE /\ result' = result
                                  /\ pc' = "collect"
    /\ UNCHANGED <<pureVars, fs, call, ptr, native_arg, pages>>

\* fs::read_to_string and serde_json::from_str on one artifact.
ReadArtifact(data) ==
    IF ~data.readable THEN Err([kind |-> "Io"])
    ELSE LET blocks == DeserializeBlocks(data.doc)
         IN IF blocks.ok THEN blocks ELSE Err([kind |-> "Json", detail |-> blocks.err])

\* A plausible slip: an artifact that fails ends the loop with what was read.
CollectStepPartial ==
    /\ pc = "collect"
    /\ Len(pages) < Len(files)
    /\ LET blocks == ReadArtifact(dir.data[files[Len(pages) + 1]])
       IN  IF blocks.ok
           THEN /\ pages' = Append(pages, blocks.val)
                /\ UNCHANGED <<pc, result>>
           ELSE /\ result' = Ok(pages)
                /\ pages' = <<>>
                /\ pc' = "done"
    /\ UNCHANGED <<pureVars, fs, dir, call, native, ptr, native_arg, files>>

\* One turn of the for loop of to_json_collect, on the next path of files.
CollectStep ==
    /\ pc = "collect"
    /\ Len(pages) < Len(files)
    /\ LET blocks == ReadArtifact(dir.data[files[Len(pages) + 1]])
       IN  IF blocks.ok
           THEN /\ pages' = Append(pages, blocks.val)
                /\ UNCHANGED <<pc, result>>
           ELSE /\ result' = Err(blocks.err)
                /\ pages' = <<>>
                /\ pc' = "done"
    /\ UNCHANGED <<pureVars, fs, dir, call, native, ptr, native_arg, files>>

\* The loop has run over every path: Ok(pages).
CollectReturn ==
    /\ pc = "collect"
    /\ Len(pages) = Len(files)
    /\ result' = Ok(pages)
    /\ pages' = <<>>
    /\ pc' = "done"
    /\ UNCHANGED <<pureVars, fs, dir, call, native, ptr, native_arg, files>>

\* extract_page_json up to the return of page_to_json_string.
ExtractPage ==
    /\ pc = "extract_page_json"
    /\ LET pdf_c == path_to_cstring(call.pdf_path)
       IN  IF ~PathExists(fs, call.pdf_path)
           THEN /\ result' = Err([kind |-> "MissingInput", path |-> call.pdf_path])
                /\ pc' = "done"
                /\ UNCHANGED <<native, ptr, native_arg>>
           ELSE IF ExceedsI32Max(call.page_number)
           THEN /\ result' = Err([kind |-> "PageNumberOverflow"])
                /\ pc' = "done"
                /\ UNCHANGED <<native, ptr, native_arg>>
           ELSE IF ~pdf_c.ok
           THEN /\ result' = pdf_c
                /\ pc' = "done"
                /\ UNCHANGED <<native, ptr, native_arg>>
           ELSE /\ native' = [native EXCEPT !.page_to_json_string = @ + 1]
                /\ native_arg' = AsI32(call.page_number)
                /\ ptr' \in Buffers
                /\ pc' = "page_returned"
                /\ result' = result
    /\ UNCHANGED <<pureVars, fs, dir, call, files, pages>>

\* extract_page_json from the null check on: to_str()? returns on bytes that
\* are no UTF-8 before free is reached.
ExtractPageFinish ==
    /\ pc = "page_returned"
    /\ IF IsNull(ptr)
       THEN /\ result' = Err([kind |-> "NullResult"])
            /\ native' = native
       ELSE IF ~ptr.utf8
       THEN /\ result' = Err([kind |-> "Utf8"])
            /\ native' = native
       ELSE /\ native' = [native EXCEPT !.free = @ + 1]
            /\ result' = Ok(ptr.text)
    /\ pc' = "done"
    /\ UNCHANGED <<pureVars, fs, dir, call, ptr, native_arg, files, pages>>

Next ==
    \/ CallDocument
    \/ CallPage
    \/ ToJson
    \/ ConvertDocument
    \/ CollectStep
    \/ CollectReturn
    \/ ExtractPage
    \/ ExtractPageFinish

Spec == Init /\ [][Next]_vars

(***************************************************************************)
(* Properties.                                                             *)
(***************************************************************************)
Done == pc = "done"
MissingInputOf(p) == Err([kind |-> "MissingInput", path |-> p])

\* C1: in extract_page_json, once page_to_json_string has returned a non-null
\* buffer, free has been invoked exactly once on it when the call returns,
\* whether the buffer decodes (Ok) or not (Utf8).
C1_FreedExactlyOnce ==
    (Done /\ call.fn = "extract_page_json" /\ native.page_to_json_string = 1
          /\ ~ptr.null)
        => native.free = 1

\* C2: for an input path that does not exist, to_json, to_json_collect and
\* extract_page_json return MissingInput carrying that path, and in no state
\* of the call has pdf_to_json or page_to_json_string been invoked.
C2_MissingInputBeforeNative ==
    (call.fn # "none" /\ fs[call.pdf_path] = "absent")
        => /\ native.pdf_to_json = 0
           /\ native.page_to_json_string = 0
           /\ Done => result = MissingInputOf(call.pdf_path)

C2_Witness ==
    /\ Done
    /\ call.fn = "to_json_collect"
    /\ call.pdf_path = MissingPdf
    /\ result = MissingInputOf(MissingPdf)
    /\ native = ZeroCalls

\* C3: for extract_page_json on an existing path, page number 2^31 - 1 reaches
\* page_to_json_string as that same value; 2^31 and every larger page number
\* fails with PageNumberOverflow without page_to_json_string being invoked;
\* the value page_to_json_string receives is the page number asked for, never
\* a negative one.
C3_PageNumberRange ==
    (call.fn = "extract_page_json" /\ fs[call.pdf_path] # "absent")
        => /\ native.page_to_json_string > 0
                => /\ <<0, 0, native_arg[1], native_arg[2]>> = call.page_number
                   /\ native_arg[1] < 2 ^ 15
           /\ (call.page_number = <<0, 0, (2 ^ 15) - 1, (2 ^ 16) - 1>>
                   /\ pc \in {"page_returned", "done"})
                => /\ native.page_to_json_string = 1
                   /\ native_arg = <<(2 ^ 15) - 1, (2 ^ 16) - 1>>
           /\ (call.page_number[1] > 0 \/ call.page_number[2] > 0
                   \/ call.page_number[3] >= 2 ^ 15)
                => /\ native.page_to_json_string = 0
                   /\ Done => result = Err([kind |-> "PageNumberOverflow"])

C3_Witness ==
    /\ pc = "page_returned"
    /\ call.pdf_path = ReportPdf
    /\ call.page_number = I32_MAX
    /\ native.page_to_json_string = 1
    /\ native_arg = <<(2 ^ 15) - 1, (2 ^ 16) - 1>>

\* C4: when page_to_json_string returns NULL, extract_page_json fails with
\* NullResult and free is never invoked during the call.
C4_NullResultNoFree ==
    (call.fn = "extract_page_json" /\ native.page_to_json_string = 1 /\ ptr.null)
        => /\ native.free = 0
           /\ Done => result = Err([kind |-> "NullResult"])

C4_Witness ==
    /\ Done
    /\ native.page_to_json_string = 1
    /\ ptr = NullPtr
    /\ result = Err([kind |-> "NullResult"])

\* C5: for all numbers a, b, c, d the array [a, b, c, d] and the object
\* {x0: a, y0: b, x1: c, y1: d} both normalize to the record x0 = a, y0 = b,
\* x1 = c, y1 = d, also when a > c or b > d.
C5_ShapesAgree ==
    output # Pending
        => \A a, b, c, d \in Coords :
              (\/ input = JArr(<<JNum(a), JNum(b), JNum(c), JNum(d)>>)
               \/ input = JObj([x0 |-> JNum(a), y0 |-> JNum(b), x1 |-> JNum(c),
                                y1 |-> JNum(d)]))
                  => output = Ok([x0 |-> a, y0 |-> b, x1 |-> c, y1 |-> d])

C5_Witness ==
    /\ output # Pending
    /\ input = JArr(<<JNum(1), JNum(1), JNum(0), JNum(0)>>)
    /\ output.ok
    /\ output.val.x0 > output.val.x1
    /\ output.val.y0 > output.val.y1

\* C6: normalization fails, and names the coordinate or the shape defect,
\* for an array of a length other than 4, for an array or object with a
\* coordinate that is no number, for an object that lacks one of x0, y0, x1,
\* y1, and for a value that is neither an array nor an object.
C6_MalformedFails ==
    LET ArrayMessage(i) ==
            <<"bbox[0] not a number", "bbox[1] not a number", "bbox[2] not a number",
              "bbox[3] not a number">>[i]
        badIndex(i) == input.elems[i].k # "num"
        badKey(key) == key \notin DOMAIN input.fields \/ input.fields[key].k # "num"
    IN  output # Pending
            => /\ (input.k = "arr" /\ Len(input.elems) # 4) => output = Err(ShapeError)
               /\ input.k \notin {"arr", "obj"} => output = Err(ShapeError)
               /\ (input.k = "arr" /\ Len(input.elems) = 4 /\ \E i \in 1..4 : badIndex(i))
                    => /\ ~output.ok
                       /\ \E i \in 1..4 : badIndex(i) /\ output.err = ArrayMessage(i)
               /\ (input.k = "obj" /\ \E key \in BBoxKeys : badKey(key))
                    => /\ ~output.ok
                       /\ \E key \in BBoxKeys :
                             badKey(key) /\ output.err = "missing or invalid " \o key

C6_Witness ==
    /\ output = Err("missing or invalid y1")
    /\ input.k = "obj"
    /\ DOMAIN input.fields = {"x0", "y0", "x1"}

\* C7: gather_json_files returns exactly the entries whose name starts with
\* "page_" and ends in the extension "json", in ascending lexicographic order
\* without duplicates; a directory of page_2.json, page_10.json and
\* page_1.json gives page_1.json, page_10.json, page_2.json whatever the
\* order of the listing.
C7_DiscoveryExactAndSorted ==
    LET dotJson == <<".", "j", "s", "o", "n">>
        matches(name) ==
            /\ Len(name) >= 5 + Len(dotJson)
            /\ SubSeq(name, 1, 5) = <<"p", "a", "g", "e", "_">>
            /\ SubSeq(name, Len(name) - Len(dotJson) + 1, Len(name)) = dotJson
    IN  output # Pending
            => /\ output.ok
               /\ Range(output.val) = {name \in Range(input) : matches(name)}
               /\ \A i, j \in DOMAIN output.val : i < j => PathLess(output.val[i], output.val[j])
               /\ Range(input) = {Page2, Page10, Page1}
                    => output.val = <<Page1, Page10, Page2>>

C7_Witness ==
    /\ input = <<Page2, Page10, Page1>>
    /\ output = Ok(<<Page1, Page10, Page2>>)

\* C8: to_json_collect over the discovered artifacts: when every artifact
\* reads and deserializes, the result holds one block sequence per artifact,
\* the i-th being the deserialization of the i-th artifact in sorted order;
\* when one fails, the call returns the error of the first one failing in
\* sorted order and no block sequence.
C8_AllOrNothing ==
    LET good(name) == dir.data[name].readable /\ DeserializeBlocks(dir.data[name].doc).ok
        bad == {i \in DOMAIN files : ~good(files[i])}
        firstBad == CHOOSE i \in bad : \A j \in bad : i <= j
        errorOf(name) ==
            IF ~dir.data[name].readable THEN [kind |-> "Io"]
            ELSE [kind |-> "Json", detail |-> DeserializeBlocks(dir.data[name].doc).err]
    IN  (Done /\ call.fn = "to_json_collect" /\ native.pdf_to_json = 1
              /\ (result.ok \/ result.err.kind # "CError"))
            => /\ files = gather_json_files(dir.listing).val
               /\ IF bad = {}
                  THEN /\ result.ok
                       /\ Len(result.val) = Len(files)
                       /\ \A i \in DOMAIN files :
                             result.val[i] = DeserializeBlocks(dir.data[files[i]].doc).val
                  ELSE result = Err(errorOf(files[firstBad]))

C8_Witness ==
    /\ Done
    /\ call.fn = "to_json_collect"
    /\ files = <<Page10, Page2>>
    /\ dir.data[Page10] = [readable |-> TRUE, doc |-> JArr(<<BlockA>>)]
    /\ dir.data[Page2] = [readable |-> TRUE, doc |-> JArr(<<BlockA, BlockShort>>)]
    /\ ~result.ok
    /\ result.err.kind = "Json"

\* C9: for an input path that exists but is no regular file (a directory),
\* to_json, to_json_collect and extract_page_json fail with MissingInput
\* carrying that path; the output location is not created and no native entry
\* point is invoked.
C9_NonRegularInputRejected ==
    [][(call.fn # "none" /\ fs[call.pdf_path] = "dir")
          => /\ fs' = fs
             /\ native' = ZeroCalls
             /\ pc' = "done" => result' = MissingInputOf(call.pdf_path)]_vars

\* C10: in a block payload, a defaulted key (font_size, font_weight, lines,
\* confidence, row_count, col_count, cell_count, rows) that is present with
\* the value null gives the result the payload gives without the key, and is
\* never the field an error is about.
C10_NullIsUnset ==
    output # Pending
        => \A f \in DefaultedFields :
              (f \in DOMAIN input /\ input[f].k = "null")
                  => /\ output = DeserializeBlock([g \in DOMAIN input \ {f} |-> input[g]])
                     /\ output.ok \/ output.err.field # f

=============================================================================
